---- MODULE Spec2Model ----
(***************************************************************************)
(* Model of gammapy/utils/modeling.py: the conversion between gamma-cat    *)
(* catalog sources, the Parameter / ParameterSet / SpectralModel /         *)
(* SpatialModel / SourceModel / SourceLibrary object model, and the XML    *)
(* exchange format.                                                        *)
(*                                                                         *)
(* Every operation of the module is a pure, synchronous transformation, so *)
(* the state machine is a single caller: it makes one call (an action per  *)
(* public operation), the call's argument and outcome are recorded in the  *)
(* state, and a library that was serialized can afterwards be re-read.     *)
(***************************************************************************)
EXTENDS Integers, Sequences, FiniteSets, TLC

(***************************************************************************)
(* Python floats.  Parameter.__init__ stores float(value), an IEEE-754     *)
(* binary64.  A float is  sgn * man * 2^exp  with man a MantBits-bit       *)
(* natural (2^52 <= man < 2^53) or zero.  man does not fit TLC's 32-bit    *)
(* integers, so naturals are little-endian sequences of limbs below        *)
(* LimbBase without leading zero limbs (zero is <<>>).  Only normal values *)
(* occur: the exponents of the model stay far from the format's limits.    *)
(***************************************************************************)
MantBits == 53

LimbBase == 2^27

RECURSIVE BigTrim(_)
BigTrim(a) ==
    IF a = <<>> THEN <<>>
    ELSE IF a[Len(a)] = 0 THEN BigTrim(SubSeq(a, 1, Len(a) - 1))
    ELSE a

RECURSIVE BigDoubleFrom(_, _, _)
BigDoubleFrom(a, i, c) ==
    IF i > Len(a) THEN (IF c = 0 THEN <<>> ELSE <<c>>)
    ELSE LET t == 2 * a[i] + c
         IN  <<t % LimbBase>> \o BigDoubleFrom(a, i + 1, t \div LimbBase)

\* 2 * a + bit
BigDouble(a, bit) == BigDoubleFrom(a, 1, bit)

RECURSIVE BigHalfFrom(_, _, _)
BigHalfFrom(a, i, c) ==
    IF i = 0 THEN <<>>
    ELSE LET t == c * LimbBase + a[i]
         IN  BigHalfFrom(a, i - 1, t % 2) \o <<t \div 2>>

\* a \div 2
BigHalf(a) == BigTrim(BigHalfFrom(a, Len(a), 0))

BigOdd(a) == a # <<>> /\ a[1] % 2 = 1

BigLimb(a, i) == IF i <= Len(a) THEN a[i] ELSE 0

RECURSIVE BigAddFrom(_, _, _, _)
BigAddFrom(a, b, i, c) ==
    IF i > Len(a) /\ i > Len(b) THEN (IF c = 0 THEN <<>> ELSE <<c>>)
    ELSE LET t == BigLimb(a, i) + BigLimb(b, i) + c
         IN  <<t % LimbBase>> \o BigAddFrom(a, b, i + 1, t \div LimbBase)

BigAdd(a, b) == BigAddFrom(a, b, 1, 0)

RECURSIVE BigGeqFrom(_, _, _)
BigGeqFrom(a, b, i) ==
    IF i = 0 THEN TRUE
    ELSE IF a[i] # b[i] THEN a[i] > b[i]
    ELSE BigGeqFrom(a, b, i - 1)

\* a >= b, both without leading zero limbs
BigGeq(a, b) ==
    IF Len(a) # Len(b) THEN Len(a) > Len(b) ELSE BigGeqFrom(a, b, Len(a))

RECURSIVE BigSubFrom(_, _, _, _)
BigSubFrom(a, b, i, c) ==
    IF i > Len(a) THEN <<>>
    ELSE LET t == a[i] - BigLimb(b, i) - c
         IN  IF t < 0 THEN <<t + LimbBase>> \o BigSubFrom(a, b, i + 1, 1)
             ELSE <<t>> \o BigSubFrom(a, b, i + 1, 0)

\* a - b for a >= b
BigSub(a, b) == BigTrim(BigSubFrom(a, b, 1, 0))

RECURSIVE IntBitLen(_)
IntBitLen(n) == IF n = 0 THEN 0 ELSE 1 + IntBitLen(n \div 2)

LimbBits == IntBitLen(LimbBase - 1)

BigBitLen(a) ==
    IF a = <<>> THEN 0 ELSE (Len(a) - 1) * LimbBits + IntBitLen(a[Len(a)])

\* bit i (0 is the lowest) of a
BigBit(a, i) == (BigLimb(a, (i \div LimbBits) + 1) \div (2 ^ (i % LimbBits))) % 2

(***************************************************************************)
(* The bit loops below keep their index in the loop state and run one limb *)
(* (LimbBits steps) per recursion of the outer operator, which keeps the   *)
(* evaluation stack shallow.                                               *)
(***************************************************************************)
MulStep(a, b, st) ==
    LET d == BigDouble(st.acc, 0)
    IN  [i |-> st.i - 1, acc |-> IF BigBit(b, st.i) = 1 THEN BigAdd(d, a) ELSE d]

RECURSIVE BigMulBits(_, _, _, _)
BigMulBits(a, b, lo, st) ==
    IF st.i < lo THEN st ELSE BigMulBits(a, b, lo, MulStep(a, b, st))

RECURSIVE BigMulLimbs(_, _, _, _)
BigMulLimbs(a, b, j, st) ==
    IF st.i < 0 THEN st.acc
    ELSE BigMulLimbs(a, b, j - 1, BigMulBits(a, b, (j - 1) * LimbBits, st))

\* a * b, by shift and add over the bits of b
BigMul(a, b) == BigMulLimbs(a, b, Len(b), [i |-> Len(b) * LimbBits - 1, acc |-> <<>>])

DivStep(n, d, st) ==
    LET r2 == BigDouble(st.rem, BigBit(n, st.i))
    IN  IF BigGeq(r2, d)
        THEN [i |-> st.i - 1, quo |-> BigDouble(st.quo, 1), rem |-> BigSub(r2, d)]
        ELSE [i |-> st.i - 1, quo |-> BigDouble(st.quo, 0), rem |-> r2]

RECURSIVE BigDivBits(_, _, _, _)
BigDivBits(n, d, lo, st) ==
    IF st.i < lo THEN st ELSE BigDivBits(n, d, lo, DivStep(n, d, st))

RECURSIVE BigDivLimbs(_, _, _, _)
BigDivLimbs(n, d, j, st) ==
    IF st.i < 0 THEN [quo |-> BigTrim(st.quo), rem |-> st.rem]
    ELSE BigDivLimbs(n, d, j - 1, BigDivBits(n, d, (j - 1) * LimbBits, st))

\* quotient and remainder of n by d > 0, by binary long division
BigDivMod(n, d) ==
    BigDivLimbs(n, d, Len(n), [i |-> Len(n) * LimbBits - 1, quo |-> <<>>, rem |-> <<>>])

\* a * 2^k: whole limbs first, then the remaining bits
RECURSIVE BigShiftLeft(_, _)
BigShiftLeft(a, k) ==
    IF a = <<>> \/ k = 0 THEN a
    ELSE IF k >= LimbBits THEN BigShiftLeft(<<0>> \o a, k - LimbBits)
    ELSE BigShiftLeft(BigDouble(a, 0), k - 1)

(***************************************************************************)
(* Rounding to nearest, ties to even: p * 2^e, with `sticky' saying that   *)
(* bits below p were already dropped, becomes a MantBits-bit mantissa.     *)
(* st.guard is the last bit shifted out, st.sticky the OR of the earlier.  *)
(***************************************************************************)
ShiftStep(st) ==
    [k |-> st.k - 1, p |-> BigHalf(st.p), e |-> st.e + 1,
     guard |-> BigOdd(st.p), sticky |-> st.sticky \/ st.guard]

RECURSIVE ShiftRightBits(_, _)
ShiftRightBits(st, lo) ==
    IF st.k <= lo THEN st ELSE ShiftRightBits(ShiftStep(st), lo)

RECURSIVE ShiftRight(_)
ShiftRight(st) ==
    IF st.k <= 0 THEN st
    ELSE ShiftRight(ShiftRightBits(st, IF st.k > LimbBits THEN st.k - LimbBits ELSE 0))

RoundShift(p, e, sticky) ==
    LET st == ShiftRight([k |-> BigBitLen(p) - MantBits, p |-> p, e |-> e,
                          guard |-> FALSE, sticky |-> sticky])
        up == st.guard /\ (st.sticky \/ BigOdd(st.p))
        q  == IF up THEN BigAdd(st.p, <<1>>) ELSE st.p
    IN  IF BigBitLen(q) > MantBits
        THEN [man |-> BigHalf(q), exp |-> st.e + 1]
        ELSE [man |-> q, exp |-> st.e]

FRound(sgn, p, e, sticky) ==
    LET r == RoundShift(p, e, sticky)
    IN  [sgn |-> sgn, man |-> r.man, exp |-> r.exp]

FZero == [sgn |-> 1, man |-> <<>>, exp |-> 0]

FIsZero(x) == x.man = <<>>

\* float(n) for an integer n with |n| < 2^26
FromInt(n) ==
    IF n = 0 THEN FZero
    ELSE LET a == IF n < 0 THEN -n ELSE n
             k == IntBitLen(a)
         IN  [sgn |-> IF n < 0 THEN -1 ELSE 1,
              man |-> <<0, a * 2 ^ (MantBits - LimbBits - k)>>,
              exp |-> k - MantBits]

\* -x
FNeg(x) == [x EXCEPT !.sgn = -x.sgn]

\* x * y, correctly rounded
FMul(x, y) ==
    IF FIsZero(x) \/ FIsZero(y) THEN [FZero EXCEPT !.sgn = x.sgn * y.sgn]
    ELSE FRound(x.sgn * y.sgn, BigMul(x.man, y.man), x.exp + y.exp, FALSE)

\* x / y for y # 0, correctly rounded
FDiv(x, y) ==
    IF FIsZero(x) THEN [FZero EXCEPT !.sgn = x.sgn * y.sgn]
    ELSE LET d == BigDivMod(BigShiftLeft(x.man, MantBits + 1), y.man)
         IN  FRound(x.sgn * y.sgn, d.quo, x.exp - y.exp - (MantBits + 1),
                    d.rem # <<>>)

(***************************************************************************)
(* Outcomes.  A call either returns a value or raises a Python exception;  *)
(* an exception carries the format string's text and the value formatted   *)
(* into it.  Exceptions propagate: nothing in the module catches one,      *)
(* apart from the ValueError in SpectralModel.from_gammacat.               *)
(***************************************************************************)
Return(v) == [exc |-> "none", val |-> v]

Raise(exc, msg, arg) == [exc |-> exc, msg |-> msg, arg |-> arg]

Returned(r) == r.exc = "none"

(***************************************************************************)
(* Parameter and ParameterSet.                                             *)
(***************************************************************************)
\* Parameter.__init__; value is already a float here
Parameter(name, value, unit) == [name |-> name, value |-> value, unit |-> unit]

\* Parameter.from_dict_gammacat: keys name, val, unit
Parameter_from_dict_gammacat(data) == Parameter(data.name, data.val, data.unit)

\* ParameterSet.__init__: data is a list of Parameter
ParameterSet(data) == [data |-> data]

ParameterSet_from_list_of_dict_gammacat(data) ==
    ParameterSet([i \in 1..Len(data) |-> Parameter_from_dict_gammacat(data[i])])

RECURSIVE par_last_from(_, _, _)
par_last_from(pset, name, i) ==
    IF i = 0
    THEN Raise("IndexError", "Parameter {} not found for pset: {}", <<name, pset>>)
    ELSE IF name = pset.data[i].name THEN Return(pset.data[i])
    ELSE par_last_from(pset, name, i - 1)

\* a lookup that lets a later Parameter of the same name win
ParameterSet_par_last(pset, name) == par_last_from(pset, name, Len(pset.data))

RECURSIVE par_from(_, _, _)
par_from(pset, name, i) ==
    IF i > Len(pset.data)
    THEN Raise("IndexError", "Parameter {} not found for pset: {}", <<name, pset>>)
    ELSE IF name = pset.data[i].name THEN Return(pset.data[i])
    ELSE par_from(pset, name, i + 1)

\* ParameterSet.par: the for loop over self.data, then the raise
ParameterSet_par(pset, name) == par_from(pset, name, 1)

(***************************************************************************)
(* Models.  A model object is its class and its ParameterSet; the class    *)
(* attributes xml_type, xml_types and xml_source_type are operators on     *)
(* the class name.                                                         *)
(***************************************************************************)
\* BaseModel.__init__ given a ParameterSet
BaseModel(cls, parameters) == [cls |-> cls, parameters |-> parameters]

\* BaseModel.__init__ given a list of Parameter: wrapped in a ParameterSet
BaseModel_from_list(cls, parameters) == BaseModel(cls, ParameterSet(parameters))

xml_type(cls) ==
    CASE cls = "SpectralModelPowerLaw"  -> "PowerLaw"
      [] cls = "SpectralModelPowerLaw2" -> "PowerLaw2"
      [] cls = "SpectralModelExpCutoff" -> "ExpCutoff"
      [] cls = "SpatialModelPoint"      -> "Point"
      [] cls = "SpatialModelGauss"      -> "Gauss"
      [] cls = "SpatialModelShell"      -> "Shell"

xml_types(cls) ==
    CASE cls = "SpatialModelGauss" -> <<xml_type(cls), "Gaussian">>
      [] cls = "SpatialModelShell" -> <<xml_type(cls), "RadialShell">>
      [] OTHER                     -> <<xml_type(cls)>>

xml_source_type(cls) ==
    CASE cls = "SpatialModelPoint" -> "PointSource"
      [] cls = "SpatialModelGauss" -> "ExtendedSource"
      [] cls = "SpatialModelShell" -> "ExtendedSource"

\* `x in list'
InList(x, list) == \E i \in 1..Len(list) : list[i] = x

(***************************************************************************)
(* The from_pset conversions.  Each pset.par(...) may raise IndexError,    *)
(* which ends the conversion at that statement.                            *)
(***************************************************************************)
\* a conversion that forgets the sign change of the index
SpectralModelPowerLaw_from_pset_index_kept(pset) ==
    LET a == ParameterSet_par(pset, "amplitude")
        i == ParameterSet_par(pset, "index")
        r == ParameterSet_par(pset, "reference")
    IN  IF ~Returned(a) THEN a
        ELSE IF ~Returned(i) THEN i
        ELSE IF ~Returned(r) THEN r
        ELSE Return(BaseModel_from_list("SpectralModelPowerLaw",
                 << Parameter("Prefactor", a.val.value, a.val.unit),
                    Parameter("Index", i.val.value, i.val.unit),
                    Parameter("Scale", r.val.value, r.val.unit) >>))

SpectralModelPowerLaw_from_pset(pset) ==
    LET a == ParameterSet_par(pset, "amplitude")
        i == ParameterSet_par(pset, "index")
        r == ParameterSet_par(pset, "reference")
    IN  IF ~Returned(a) THEN a
        ELSE IF ~Returned(i) THEN i
        ELSE IF ~Returned(r) THEN r
        ELSE Return(BaseModel_from_list("SpectralModelPowerLaw",
                 << Parameter("Prefactor", a.val.value, a.val.unit),
                    Parameter("Index", FNeg(i.val.value), i.val.unit),
                    Parameter("Scale", r.val.value, r.val.unit) >>))

SpectralModelPowerLaw2_from_pset(pset) ==
    LET a  == ParameterSet_par(pset, "amplitude")
        i  == ParameterSet_par(pset, "index")
        lo == ParameterSet_par(pset, "emin")
        hi == ParameterSet_par(pset, "emax")
    IN  IF ~Returned(a) THEN a
        ELSE IF ~Returned(i) THEN i
        ELSE IF ~Returned(lo) THEN lo
        ELSE IF ~Returned(hi) THEN hi
        ELSE Return(BaseModel_from_list("SpectralModelPowerLaw2",
                 << Parameter("Integral", a.val.value, a.val.unit),
                    Parameter("Index", FNeg(i.val.value), i.val.unit),
                    Parameter("LowerLimit", lo.val.value, lo.val.unit),
                    Parameter("UpperLimit", hi.val.value, hi.val.unit) >>))

\* a conversion that changes the sign of the index as the power laws do
SpectralModelExpCutoff_from_pset_index_negated(pset) ==
    LET a == ParameterSet_par(pset, "amplitude")
        i == ParameterSet_par(pset, "index")
        l == ParameterSet_par(pset, "lambda_")
        r == ParameterSet_par(pset, "reference")
    IN  IF ~Returned(a) THEN a
        ELSE IF ~Returned(i) THEN i
        ELSE IF ~Returned(l) THEN l
        ELSE IF FIsZero(l.val.value)
        THEN Raise("ZeroDivisionError", "float division by zero", l.val)
        ELSE IF ~Returned(r) THEN r
        ELSE Return(BaseModel_from_list("SpectralModelExpCutoff",
                 << Parameter("Prefactor", a.val.value, a.val.unit),
                    Parameter("Index", FNeg(i.val.value), i.val.unit),
                    Parameter("Cutoff", FDiv(FromInt(1), l.val.value), l.val.unit),
                    Parameter("Scale", r.val.value, r.val.unit) >>))

SpectralModelExpCutoff_from_pset(pset) ==
    LET a == ParameterSet_par(pset, "amplitude")
        i == ParameterSet_par(pset, "index")
        l == ParameterSet_par(pset, "lambda_")
        r == ParameterSet_par(pset, "reference")
    IN  IF ~Returned(a) THEN a
        ELSE IF ~Returned(i) THEN i
        ELSE IF ~Returned(l) THEN l
        ELSE IF FIsZero(l.val.value)
        THEN Raise("ZeroDivisionError", "float division by zero", l.val)
        ELSE IF ~Returned(r) THEN r
        ELSE Return(BaseModel_from_list("SpectralModelExpCutoff",
                 << Parameter("Prefactor", a.val.value, a.val.unit),
                    Parameter("Index", i.val.value, i.val.unit),
                    Parameter("Cutoff", FDiv(FromInt(1), l.val.value), l.val.unit),
                    Parameter("Scale", r.val.value, r.val.unit) >>))

(***************************************************************************)
(* Catalog sources (gammapy.catalog.gammacat, a collaborator).  A source   *)
(* has .data with common_name, morph_type and the quantities glon, glat    *)
(* and morph_sigma (value and unit), and .spectral_model, whose to_dict()  *)
(* gives {name, parameters: [{name, val, unit}, ...]} and which signals a  *)
(* source without spectral information with a ValueError.                  *)
(***************************************************************************)
spectral_model_to_dict(source) ==
    IF source.spectral_model.available
    THEN Return([name |-> source.spectral_model.name,
                 parameters |-> source.spectral_model.parameters])
    ELSE Raise("ValueError", "no spectral model", source.data.common_name)

\* SpectralModel.from_gammacat after the try block: the dispatch on data['name']
SpectralModel_from_gammacat_dispatch(data) ==
    LET pset == ParameterSet_from_list_of_dict_gammacat(data.parameters)
    IN  IF data.name = "PowerLaw"
        THEN SpectralModelPowerLaw_from_pset(pset)
        ELSE IF data.name = "PowerLaw2"
        THEN SpectralModelPowerLaw2_from_pset(pset)
        ELSE IF data.name = "ExponentialCutoffPowerLaw"
        THEN SpectralModelExpCutoff_from_pset(pset)
        ELSE Raise("UnknownModelError", "Unknown spectral model: {}", data)

\* a conversion that reports a missing spectral model as an unknown model
SpectralModel_from_gammacat_one_error(source) ==
    LET d == spectral_model_to_dict(source)
    IN  IF d.exc = "ValueError"
        THEN Raise("UnknownModelError", "Unknown spectral model: {}", source)
        ELSE IF ~Returned(d) THEN d
        ELSE SpectralModel_from_gammacat_dispatch(d.val)

\* SpectralModel.from_gammacat: try / except ValueError, then the dispatch
SpectralModel_from_gammacat(source) ==
    LET d == spectral_model_to_dict(source)
    IN  IF d.exc = "ValueError"
        THEN Raise("NoDataAvailableError", "{}", source)
        ELSE IF ~Returned(d) THEN d
        ELSE SpectralModel_from_gammacat_dispatch(d.val)

SpatialModelPoint_from_gammacat(source) ==
    LET d == source.data
    IN  Return(BaseModel_from_list("SpatialModelPoint",
            << Parameter("GLON", d.glon.value, d.glon.unit),
               Parameter("GLAT", d.glat.value, d.glat.unit) >>))

SpatialModelGauss_from_gammacat(source) ==
    LET d == source.data
    IN  Return(BaseModel_from_list("SpatialModelGauss",
            << Parameter("GLON", d.glon.value, d.glon.unit),
               Parameter("GLAT", d.glat.value, d.glat.unit),
               Parameter("Sigma", d.morph_sigma.value, d.morph_sigma.unit) >>))

SpatialModelShell_from_gammacat(source) ==
    LET d == source.data
    IN  Return(BaseModel_from_list("SpatialModelShell",
            << Parameter("GLON", d.glon.value, d.glon.unit),
               Parameter("GLAT", d.glat.value, d.glat.unit),
               Parameter("Radius", d.morph_sigma.value, d.morph_sigma.unit),
               Parameter("Width", FromInt(0), "deg") >>))

\* SpatialModel.from_gammacat
SpatialModel_from_gammacat(source) ==
    LET data == source.data
    IN  IF data.morph_type = "point" THEN SpatialModelPoint_from_gammacat(source)
        ELSE IF data.morph_type = "gauss" THEN SpatialModelGauss_from_gammacat(source)
        ELSE IF data.morph_type = "shell" THEN SpatialModelShell_from_gammacat(source)
        ELSE Raise("UnknownModelError", "Unknown spatial model: {}", source)

\* SourceModel.__init__
SourceModel(source_name, source_type, spatial_model, spectral_model) ==
    [source_name |-> source_name, source_type |-> source_type,
     spatial_model |-> spatial_model, spectral_model |-> spectral_model]

\* a conversion that converts the spatial model before the spectral model
SourceModel_from_gammacat_spatial_first(source) ==
    LET source_name    == source.data.common_name
        spectral_model == SpectralModel_from_gammacat(source)
        spatial_model  == SpatialModel_from_gammacat(source)
    IN  IF ~Returned(spatial_model) THEN spatial_model
        ELSE IF ~Returned(spectral_model) THEN spectral_model
        ELSE Return(SourceModel(source_name,
                                xml_source_type(spatial_model.val.cls),
                                spatial_model.val, spectral_model.val))

\* a conversion that chooses source_type on its own
SourceModel_from_gammacat_point_source(source) ==
    LET source_name    == source.data.common_name
        spectral_model == SpectralModel_from_gammacat(source)
        spatial_model  == SpatialModel_from_gammacat(source)
    IN  IF ~Returned(spectral_model) THEN spectral_model
        ELSE IF ~Returned(spatial_model) THEN spatial_model
        ELSE Return(SourceModel(source_name, "PointSource",
                                spatial_model.val, spectral_model.val))

\* SourceModel.from_gammacat: the spectral model is converted first
SourceModel_from_gammacat(source) ==
    LET source_name    == source.data.common_name
        spectral_model == SpectralModel_from_gammacat(source)
        spatial_model  == SpatialModel_from_gammacat(source)
    IN  IF ~Returned(spectral_model) THEN spectral_model
        ELSE IF ~Returned(spatial_model) THEN spatial_model
        ELSE Return(SourceModel(source_name,
                                xml_source_type(spatial_model.val.cls),
                                spatial_model.val, spectral_model.val))

(***************************************************************************)
(* XML.  A document is its tree of elements: a tag, the attributes in the  *)
(* order written, and the child elements in the order written.  The        *)
(* whitespace the templates put between elements carries no information    *)
(* for the parser and is not represented.  An attribute value is text:     *)
(* either a string, or the text Python prints for a float.                 *)
(***************************************************************************)
Text(s) == [text |-> s]

\* '{value}'.format(value=<float>): the shortest text that reads back as the float
FloatToStr(f) == [numtext |-> f]

Element(tag, attrs, children) == [tag |-> tag, attrs |-> attrs, children |-> children]

Attr(k, v) == [k |-> k, v |-> v]

\* Parameter.to_xml
Parameter_to_xml(par) ==
    Element("parameter",
            << Attr("name", Text(par.name)), Attr("value", FloatToStr(par.value)),
               Attr("unit", Text(par.unit)) >>,
            <<>>)

\* ParameterSet.to_xml: one fragment per member, in stored order
ParameterSet_to_xml(pset) == [i \in 1..Len(pset.data) |-> Parameter_to_xml(pset.data[i])]

\* SpectralModel.to_xml
SpectralModel_to_xml(model) ==
    Element("spectrum", << Attr("type", Text(xml_type(model.cls))) >>,
            ParameterSet_to_xml(model.parameters))

\* SpatialModel.to_xml
SpatialModel_to_xml(model) ==
    Element("spatialModel", << Attr("type", Text(xml_type(model.cls))) >>,
            ParameterSet_to_xml(model.parameters))

\* SourceModel.to_xml
SourceModel_to_xml(source) ==
    Element("source",
            << Attr("name", Text(source.source_name)),
               Attr("type", Text(source.source_type)) >>,
            << SpectralModel_to_xml(source.spectral_model),
               SpatialModel_to_xml(source.spatial_model) >>)

\* SourceLibrary.__init__
SourceLibrary(source_list) == [source_list |-> source_list]

\* SourceLibrary.to_xml, with the default header
SourceLibrary_to_xml(library, title) ==
    Element("source_library", << Attr("title", Text(title)) >>,
            [i \in 1..Len(library.source_list) |->
                SourceModel_to_xml(library.source_list[i])])

(***************************************************************************)
(* The XML primitive (gammapy.extern.xmltodict, a collaborator): parse     *)
(* turns a document into nested ordered mappings.  An attribute a becomes  *)
(* the key @a; a child element becomes a key named by its tag; only a tag  *)
(* that is repeated among the children of one element is promoted to a     *)
(* list; an element with neither attributes nor children is None.          *)
(***************************************************************************)
PyNone == [none |-> TRUE]

PyDict(items) == [dict |-> items]

PyList(items) == [list |-> items]

IsDict(v) == "dict" \in DOMAIN v

IsList(v) == "list" \in DOMAIN v

IsNone(v) == "none" \in DOMAIN v

HasKey(d, key) == \E i \in 1..Len(d.dict) : d.dict[i].k = key

KeyIndex(d, key) == CHOOSE i \in 1..Len(d.dict) : d.dict[i].k = key

AttrKey(a) ==
    CASE a = "name"  -> "@name"
      [] a = "value" -> "@value"
      [] a = "unit"  -> "@unit"
      [] a = "type"  -> "@type"
      [] a = "title" -> "@title"

RECURSIVE XmlValue(_)
RECURSIVE AddChildren(_, _, _)
AddChildren(d, children, i) ==
    IF i > Len(children) THEN d
    ELSE LET tag == children[i].tag
             v   == XmlValue(children[i])
         IN  IF HasKey(d, tag)
             THEN LET j   == KeyIndex(d, tag)
                      old == d.dict[j].v
                      new == IF IsList(old) THEN PyList(Append(old.list, v))
                             ELSE PyList(<<old, v>>)
                  IN  AddChildren(PyDict([d.dict EXCEPT ![j].v = new]), children, i + 1)
             ELSE AddChildren(PyDict(Append(d.dict, Attr(tag, v))), children, i + 1)

XmlValue(e) ==
    IF e.attrs = <<>> /\ e.children = <<>> THEN PyNone
    ELSE AddChildren(PyDict([i \in 1..Len(e.attrs) |->
                                Attr(AttrKey(e.attrs[i].k), e.attrs[i].v)]),
                     e.children, 1)

\* xmltodict.parse
xmltodict_parse(xml) == PyDict(<< Attr(xml.tag, XmlValue(xml)) >>)

(***************************************************************************)
(* Python's operations on what parse returns.                              *)
(***************************************************************************)
\* v[key]
GetItem(v, key) ==
    IF IsDict(v)
    THEN IF HasKey(v, key) THEN Return(v.dict[KeyIndex(v, key)].v)
         ELSE Raise("KeyError", "{}", key)
    ELSE Raise("TypeError", "indices must be integers, or not subscriptable", v)

\* `for x in v': a list gives its items, a mapping gives its keys
Iterate(v) ==
    IF IsList(v) THEN Return(v.list)
    ELSE IF IsDict(v) THEN Return([i \in 1..Len(v.dict) |-> Text(v.dict[i].k)])
    ELSE Raise("TypeError", "object is not iterable", v)

\* float(text)
StrToFloat(v) ==
    IF "numtext" \in DOMAIN v THEN Return(v.numtext)
    ELSE Raise("ValueError", "could not convert string to float", v)

\* [f(x) for x in items], given the outcomes f(x): the first exception ends it
Collect(outcomes) ==
    IF \E i \in 1..Len(outcomes) : ~Returned(outcomes[i])
    THEN outcomes[CHOOSE i \in 1..Len(outcomes) :
                     /\ ~Returned(outcomes[i])
                     /\ \A j \in 1..(i - 1) : Returned(outcomes[j])]
    ELSE Return([i \in 1..Len(outcomes) |-> outcomes[i].val])

(***************************************************************************)
(* Reading the nested mappings back into objects.                          *)
(***************************************************************************)
\* Parameter.from_dict_xml: data.get('@unit', ''), data['@name'], data['@value'],
\* then float(value) in __init__
Parameter_from_dict_xml(data) ==
    IF ~IsDict(data)
    THEN Raise("AttributeError", "object has no attribute 'get'", data)
    ELSE LET unit  == IF HasKey(data, "@unit") THEN GetItem(data, "@unit").val
                      ELSE Text("")
             name  == GetItem(data, "@name")
             value == GetItem(data, "@value")
         IN  IF ~Returned(name) THEN name
             ELSE IF ~Returned(value) THEN value
             ELSE IF ~Returned(StrToFloat(value.val)) THEN StrToFloat(value.val)
             ELSE Return(Parameter(name.val.text, StrToFloat(value.val).val, unit.text))

\* ParameterSet.from_list_of_dict_xml: a comprehension over `data'
ParameterSet_from_list_of_dict_xml(data) ==
    LET items == Iterate(data)
    IN  IF ~Returned(items) THEN items
        ELSE LET pars == Collect([i \in 1..Len(items.val) |->
                                     Parameter_from_dict_xml(items.val[i])])
             IN  IF ~Returned(pars) THEN pars ELSE Return(ParameterSet(pars.val))

\* SpectralModel.from_xml_dict: the parameters are parsed before the dispatch
SpectralModel_from_xml_dict(data) ==
    LET model_type == GetItem(data, "@type")
        parameter  == GetItem(data, "parameter")
        parameters == ParameterSet_from_list_of_dict_xml(parameter.val)
    IN  IF ~Returned(model_type) THEN model_type
        ELSE IF ~Returned(parameter) THEN parameter
        ELSE IF ~Returned(parameters) THEN parameters
        ELSE IF model_type.val.text = xml_type("SpectralModelPowerLaw")
        THEN Return(BaseModel("SpectralModelPowerLaw", parameters.val))
        ELSE IF model_type.val.text = xml_type("SpectralModelPowerLaw2")
        THEN Return(BaseModel("SpectralModelPowerLaw2", parameters.val))
        ELSE IF model_type.val.text = xml_type("SpectralModelExpCutoff")
        THEN Return(BaseModel("SpectralModelExpCutoff", parameters.val))
        ELSE Raise("UnknownModelError", "Unknown spatial model: {}", model_type.val.text)

\* a test against the primary type string only
is_xml_type(model_type, cls) == model_type = xml_type(cls)

\* `model_type in <cls>.xml_types'
in_xml_types(model_type, cls) == InList(model_type, xml_types(cls))

\* SpatialModel.from_xml_dict: every variant is built with parameters=[]
SpatialModel_from_xml_dict(data) ==
    LET model_type == GetItem(data, "@type")
    IN  IF ~Returned(model_type) THEN model_type
        ELSE IF in_xml_types(model_type.val.text, "SpatialModelPoint")
        THEN Return(BaseModel_from_list("SpatialModelPoint", <<>>))
        ELSE IF in_xml_types(model_type.val.text, "SpatialModelGauss")
        THEN Return(BaseModel_from_list("SpatialModelGauss", <<>>))
        ELSE IF in_xml_types(model_type.val.text, "SpatialModelShell")
        THEN Return(BaseModel_from_list("SpatialModelShell", <<>>))
        ELSE Raise("UnknownModelError", "Unknown spatial model: {}", model_type.val.text)

\* a choice of the spatial child that looks at 'spatialModel' first
spatial_model_from_children_spatial_first(data) ==
    IF HasKey(data, "spatialModel")
    THEN SpatialModel_from_xml_dict(GetItem(data, "spatialModel").val)
    ELSE IF HasKey(data, "radialModel")
    THEN SpatialModel_from_xml_dict(GetItem(data, "radialModel").val)
    ELSE Raise("UnknownModelError", "No spatial / radial model found for: {}", data)

\* SourceModel.from_xml_dict: the if / elif / else on 'radialModel', 'spatialModel'
spatial_model_from_children(data) ==
    IF HasKey(data, "radialModel")
    THEN SpatialModel_from_xml_dict(GetItem(data, "radialModel").val)
    ELSE IF HasKey(data, "spatialModel")
    THEN SpatialModel_from_xml_dict(GetItem(data, "spatialModel").val)
    ELSE Raise("UnknownModelError", "No spatial / radial model found for: {}", data)

\* SourceModel.from_xml_dict
SourceModel_from_xml_dict(data) ==
    LET source_name    == GetItem(data, "@name")
        source_type    == GetItem(data, "@type")
        spectrum       == GetItem(data, "spectrum")
        spectral_model == SpectralModel_from_xml_dict(spectrum.val)
        spatial_model  == spatial_model_from_children(data)
    IN  IF ~Returned(source_name) THEN source_name
        ELSE IF ~Returned(source_type) THEN source_type
        ELSE IF ~Returned(spectrum) THEN spectrum
        ELSE IF ~Returned(spectral_model) THEN spectral_model
        ELSE IF ~Returned(spatial_model) THEN spatial_model
        ELSE Return(SourceModel(source_name.val.text, source_type.val.text,
                                spatial_model.val, spectral_model.val))

\* SourceLibrary.from_list_of_dict: a loop over `data'
SourceLibrary_from_list_of_dict(data) ==
    LET items == Iterate(data)
    IN  IF ~Returned(items) THEN items
        ELSE LET models == Collect([i \in 1..Len(items.val) |->
                                       SourceModel_from_xml_dict(items.val[i])])
             IN  IF ~Returned(models) THEN models
                 ELSE Return(SourceLibrary(models.val))

\* SourceLibrary.from_xml
SourceLibrary_from_xml(xml) ==
    LET full_dict      == xmltodict_parse(xml)
        source_library == GetItem(full_dict, "source_library")
        sources_dict   == GetItem(source_library.val, "source")
    IN  IF ~Returned(source_library) THEN source_library
        ELSE IF ~Returned(sources_dict) THEN sources_dict
        ELSE SourceLibrary_from_list_of_dict(sources_dict.val)

(***************************************************************************)
(* Bounds and the inputs the caller draws from.                            *)
(***************************************************************************)
\* longest ParameterSet handed to par and to the from_pset conversions
MaxPars == 4

\* most <parameter> children of a <spectrum> or <spatialModel> element read
MaxXmlPars == 2

\* most sources in a library that is serialized and read back
MaxSources == 2

\* all sequences over S of length at most n
SeqsUpTo(S, n) == UNION {[1..k -> S] : k \in 0..n}

\* 0.1, 2.3 and 1e-12 as Python reads the literals
F0_1 == [sgn |-> 1, man |-> <<26843546, 53687091>>, exp |-> -56]

F2_3 == [sgn |-> 1, man |-> <<107374182, 38587596>>, exp |-> -51]

F1em12 == [sgn |-> 1, man |-> <<19786257, 36893488>>, exp |-> -92]

FluxUnit == "cm-2 s-1 TeV-1"

Amplitude == Parameter("amplitude", F1em12, FluxUnit)

\* the Parameters of the sets handed to ParameterSet.par
ParPool ==
    { Amplitude, Parameter("amplitude", FromInt(3), ""),
      Parameter("index", F2_3, "") }

ParNames == {"amplitude", "index", "reference"}

PowerLawPool ==
    { Amplitude, Parameter("amplitude", FromInt(3), ""),
      Parameter("index", F2_3, ""), Parameter("index", FromInt(-2), ""),
      Parameter("reference", FromInt(1), "TeV") }

PowerLaw2Pool ==
    { Amplitude, Parameter("index", F2_3, ""), Parameter("index", FromInt(-2), "deg"),
      Parameter("emin", FromInt(1), "TeV"), Parameter("emax", FromInt(10), "TeV") }

ExpCutoffPool ==
    { Amplitude, Parameter("index", F2_3, ""), Parameter("index", FromInt(-2), ""),
      Parameter("lambda_", F0_1, "TeV-1"), Parameter("lambda_", FromInt(49), "TeV-1"),
      Parameter("lambda_", FromInt(-4), "GeV-1"),
      Parameter("reference", FromInt(1), "TeV") }

\* catalog sources
Quantity(value, unit) == [value |-> value, unit |-> unit]

CatPar(name, val, unit) == [name |-> name, val |-> val, unit |-> unit]

\* what the catalog's spectral models give as their parameters
CatalogParameters(name, index) ==
    CASE name = "PowerLaw" ->
           << CatPar("index", index, ""), CatPar("amplitude", F1em12, FluxUnit),
              CatPar("reference", FromInt(1), "TeV") >>
      [] name = "PowerLaw2" ->
           << CatPar("amplitude", F1em12, "cm-2 s-1"), CatPar("index", index, ""),
              CatPar("emin", FromInt(1), "TeV"), CatPar("emax", FromInt(10), "TeV") >>
      [] name = "ExponentialCutoffPowerLaw" ->
           << CatPar("index", index, ""), CatPar("amplitude", F1em12, FluxUnit),
              CatPar("reference", FromInt(1), "TeV"), CatPar("lambda_", F0_1, "TeV-1") >>
      [] OTHER ->
           << CatPar("amplitude", F1em12, FluxUnit), CatPar("reference", FromInt(1), "TeV"),
              CatPar("alpha", index, ""), CatPar("beta", F0_1, "") >>

KnownFamilies == {"PowerLaw", "PowerLaw2", "ExponentialCutoffPowerLaw"}

Families == KnownFamilies \cup {"LogParabola"}

KnownMorphTypes == {"point", "gauss", "shell"}

MorphTypes == KnownMorphTypes \cup {"none", "ring"}

SpectralInfos ==
    { [available |-> FALSE, name |-> "", parameters |-> <<>>] } \cup
    { [available |-> TRUE, name |-> n, parameters |-> CatalogParameters(n, i)] :
        n \in Families, i \in {F2_3, FromInt(-2)} }

CatalogSource(common_name, morph_type, spectral) ==
    [data |-> [common_name |-> common_name, morph_type |-> morph_type,
               glon |-> Quantity(FromInt(184), "deg"),
               glat |-> Quantity(FromInt(-5), "deg"),
               morph_sigma |-> Quantity(F0_1, "deg")],
     spectral_model |-> spectral]

Sources ==
    { CatalogSource(n, m, sp) :
        n \in {"Crab", "Vela X"}, m \in MorphTypes, sp \in SpectralInfos }

\* <parameter> elements of documents that are read; one has no unit attribute
ParameterElements ==
    { Element("parameter",
              << Attr("name", Text("Prefactor")), Attr("value", FloatToStr(F1em12)),
                 Attr("unit", Text(FluxUnit)) >>, <<>>),
      Element("parameter",
              << Attr("name", Text("Index")), Attr("value", FloatToStr(FNeg(F2_3))) >>,
              <<>>),
      Element("parameter",
              << Attr("name", Text("Scale")), Attr("value", FloatToStr(FromInt(1))),
                 Attr("unit", Text("TeV")) >>, <<>>) }

KnownSpectralTypes == {"PowerLaw", "PowerLaw2", "ExpCutoff"}

SpectralTypes == KnownSpectralTypes \cup {"ConstantValue", "LogParabola"}

SpectrumElements ==
    { Element("spectrum", << Attr("type", Text(t)) >>, ps) :
        t \in SpectralTypes, ps \in SeqsUpTo(ParameterElements, MaxXmlPars) }

SpatialTypes == {"Point", "Gauss", "Gaussian", "Shell", "RadialShell", "Disk", "gauss"}

SpatialElements(tag, types) ==
    { Element(tag, << Attr("type", Text(t)) >>, ps) :
        t \in types, ps \in SeqsUpTo(ParameterElements, MaxXmlPars) }

\* <source> elements: a spectrum, then any of radialModel and spatialModel
SourceSpectra ==
    { e \in SpectrumElements :
        /\ e.attrs[1].v.text \in {"PowerLaw", "LogParabola"}
        /\ Len(e.children) = MaxXmlPars
        /\ \A i \in 1..Len(e.children) : e.children[i].attrs[1].v.text # "Scale" }

SourceSpatials(tag) ==
    {<<>>} \cup { <<Element(tag, << Attr("type", Text(t)) >>, <<>>)>> :
                    t \in {"Point", "Gaussian", "Disk"} }

SourceElements ==
    { Element("source", << Attr("name", Text("Crab")), Attr("type", Text(ty)) >>,
              <<sp>> \o sm \o rm) :
        ty \in {"PointSource", "ExtendedSource"}, sp \in SourceSpectra,
        sm \in SourceSpatials("spatialModel"), rm \in SourceSpatials("radialModel") }

\* the libraries that are serialized: models converted from catalog sources
LibrarySources ==
    { s \in Sources :
        /\ s.data.common_name = "Crab" \/ s.data.morph_type = "gauss"
        /\ s.data.morph_type \in {"point", "gauss"}
        /\ s.spectral_model.available
        /\ s.spectral_model.name \in {"PowerLaw", "ExponentialCutoffPowerLaw"}
        /\ s.spectral_model.parameters[1].val = F2_3 }

Libraries ==
    { SourceLibrary([i \in 1..Len(ss) |-> SourceModel_from_gammacat(ss[i]).val]) :
        ss \in SeqsUpTo(LibrarySources, MaxSources) }

(***************************************************************************)
(* The state: the operation the caller invoked, its argument, its outcome, *)
(* and the library the caller serialized (for the read that follows).      *)
(***************************************************************************)
VARIABLES op, arg, ret, library

vars == <<op, arg, ret, library>>

Init ==
    /\ op = "none"
    /\ arg = PyNone
    /\ ret = PyNone
    /\ library = PyNone

\* Each action below is one call by a caller that has not called yet: the
\* argument is drawn from the inputs above, the outcome is what the code gives.
par ==
    /\ op = "none"
    /\ \E pset \in {ParameterSet(d) : d \in SeqsUpTo(ParPool, MaxPars)}, name \in ParNames :
        /\ op' = "ParameterSet.par"
        /\ arg' = [pset |-> pset, name |-> name]
        /\ ret' = ParameterSet_par(pset, name)
    /\ UNCHANGED library

PowerLaw_from_pset ==
    /\ op = "none"
    /\ \E d \in SeqsUpTo(PowerLawPool, MaxPars) :
        /\ op' = "SpectralModelPowerLaw.from_pset"
        /\ arg' = ParameterSet(d)
        /\ ret' = SpectralModelPowerLaw_from_pset(ParameterSet(d))
    /\ UNCHANGED library

PowerLaw2_from_pset ==
    /\ op = "none"
    /\ \E d \in SeqsUpTo(PowerLaw2Pool, MaxPars) :
        /\ op' = "SpectralModelPowerLaw2.from_pset"
        /\ arg' = ParameterSet(d)
        /\ ret' = SpectralModelPowerLaw2_from_pset(ParameterSet(d))
    /\ UNCHANGED library

ExpCutoff_from_pset ==
    /\ op = "none"
    /\ \E d \in SeqsUpTo(ExpCutoffPool, MaxPars) :
        /\ op' = "SpectralModelExpCutoff.from_pset"
        /\ arg' = ParameterSet(d)
        /\ ret' = SpectralModelExpCutoff_from_pset(ParameterSet(d))
    /\ UNCHANGED library

Spectral_from_gammacat ==
    /\ op = "none"
    /\ \E source \in Sources :
        /\ op' = "SpectralModel.from_gammacat"
        /\ arg' = source
        /\ ret' = SpectralModel_from_gammacat(source)
    /\ UNCHANGED library

Spatial_from_gammacat ==
    /\ op = "none"
    /\ \E source \in Sources :
        /\ op' = "SpatialModel.from_gammacat"
        /\ arg' = source
        /\ ret' = SpatialModel_from_gammacat(source)
    /\ UNCHANGED library

Source_from_gammacat ==
    /\ op = "none"
    /\ \E source \in Sources :
        /\ op' = "SourceModel.from_gammacat"
        /\ arg' = source
        /\ ret' = SourceModel_from_gammacat(source)
    /\ UNCHANGED library

Spectral_from_xml_dict ==
    /\ op = "none"
    /\ \E e \in SpectrumElements :
        /\ op' = "SpectralModel.from_xml_dict"
        /\ arg' = XmlValue(e)
        /\ ret' = SpectralModel_from_xml_dict(XmlValue(e))
    /\ UNCHANGED library

Spatial_from_xml_dict ==
    /\ op = "none"
    /\ \E e \in SpatialElements("spatialModel", SpatialTypes) :
        /\ op' = "SpatialModel.from_xml_dict"
        /\ arg' = XmlValue(e)
        /\ ret' = SpatialModel_from_xml_dict(XmlValue(e))
    /\ UNCHANGED library

Source_from_xml_dict ==
    /\ op = "none"
    /\ \E e \in SourceElements :
        /\ op' = "SourceModel.from_xml_dict"
        /\ arg' = XmlValue(e)
        /\ ret' = SourceModel_from_xml_dict(XmlValue(e))
    /\ UNCHANGED library

\* SourceLibrary.to_xml on a library the caller holds
Library_to_xml ==
    /\ op = "none"
    /\ \E lib \in Libraries :
        /\ op' = "SourceLibrary.to_xml"
        /\ arg' = lib
        /\ ret' = Return(SourceLibrary_to_xml(lib, "sources"))
        /\ library' = lib

\* SourceLibrary.from_xml on the text to_xml returned
Library_from_xml ==
    /\ op = "SourceLibrary.to_xml"
    /\ op' = "SourceLibrary.from_xml"
    /\ arg' = ret.val
    /\ ret' = SourceLibrary_from_xml(ret.val)
    /\ UNCHANGED library

Next ==
    \/ par
    \/ PowerLaw_from_pset
    \/ PowerLaw2_from_pset
    \/ ExpCutoff_from_pset
    \/ Spectral_from_gammacat
    \/ Spatial_from_gammacat
    \/ Source_from_gammacat
    \/ Spectral_from_xml_dict
    \/ Spatial_from_xml_dict
    \/ Source_from_xml_dict
    \/ Library_to_xml
    \/ Library_from_xml

Spec == Init /\ [][Next]_vars

(***************************************************************************)
(* Properties.                                                             *)
(***************************************************************************)
Has(pset, name) == \E i \in 1..Len(pset.data) : pset.data[i].name = name

FirstIndex(pset, name) ==
    CHOOSE i \in 1..Len(pset.data) :
        /\ pset.data[i].name = name
        /\ \A j \in 1..(i - 1) : pset.data[j].name # name

First(pset, name) == pset.data[FirstIndex(pset, name)]

Negated(v, x) == v.sgn = -x.sgn /\ v.man = x.man /\ v.exp = x.exp

\* the @type of a mapping read from a document
TypeOf(data) == data.dict[KeyIndex(data, "@type")].v.text

\* C6: par(name) returns the Parameter at the lowest position whose name is
\* `name' (the first of several with that name), and raises the not-found
\* error, naming `name' and the set, when no Parameter has that name.
C6_ParFirstMatch ==
    op = "ParameterSet.par" =>
        /\ Has(arg.pset, arg.name) =>
              /\ Returned(ret)
              /\ ret.val = First(arg.pset, arg.name)
        /\ ~Has(arg.pset, arg.name) =>
              /\ ret.exc = "IndexError"
              /\ ret.arg = <<arg.name, arg.pset>>

\* a set with two Parameters of the looked-up name that differ, the first returned
C6_Witness ==
    /\ op = "ParameterSet.par"
    /\ Returned(ret)
    /\ \E i, j \in 1..Len(arg.pset.data) :
          /\ i < j
          /\ arg.pset.data[i].name = arg.name
          /\ arg.pset.data[j].name = arg.name
          /\ arg.pset.data[i] # arg.pset.data[j]
          /\ \A k \in 1..(i - 1) : arg.pset.data[k].name # arg.name
          /\ ret.val = arg.pset.data[i]

\* C2: from a set holding amplitude, index and reference, PowerLaw.from_pset
\* returns exactly [Prefactor, Index, Scale] with Prefactor = amplitude,
\* Index = -index, Scale = reference and each unit that of its source;
\* PowerLaw2.from_pset likewise returns [Integral, Index, LowerLimit,
\* UpperLimit] from amplitude, -index, emin and emax.
C2_PowerLawFromPset ==
    /\ ( /\ op = "SpectralModelPowerLaw.from_pset"
         /\ Has(arg, "amplitude") /\ Has(arg, "index") /\ Has(arg, "reference") ) =>
           /\ Returned(ret)
           /\ ret.val.cls = "SpectralModelPowerLaw"
           /\ LET d == ret.val.parameters.data
              IN  /\ Len(d) = 3
                  /\ d[1] = [name |-> "Prefactor", value |-> First(arg, "amplitude").value,
                             unit |-> First(arg, "amplitude").unit]
                  /\ d[2].name = "Index"
                  /\ Negated(d[2].value, First(arg, "index").value)
                  /\ d[2].unit = First(arg, "index").unit
                  /\ d[3] = [name |-> "Scale", value |-> First(arg, "reference").value,
                             unit |-> First(arg, "reference").unit]
    /\ ( /\ op = "SpectralModelPowerLaw2.from_pset"
         /\ Has(arg, "amplitude") /\ Has(arg, "index")
         /\ Has(arg, "emin") /\ Has(arg, "emax") ) =>
           /\ Returned(ret)
           /\ ret.val.cls = "SpectralModelPowerLaw2"
           /\ LET d == ret.val.parameters.data
              IN  /\ Len(d) = 4
                  /\ d[1] = [name |-> "Integral", value |-> First(arg, "amplitude").value,
                             unit |-> First(arg, "amplitude").unit]
                  /\ d[2].name = "Index"
                  /\ Negated(d[2].value, First(arg, "index").value)
                  /\ d[2].unit = First(arg, "index").unit
                  /\ d[3] = [name |-> "LowerLimit", value |-> First(arg, "emin").value,
                             unit |-> First(arg, "emin").unit]
                  /\ d[4] = [name |-> "UpperLimit", value |-> First(arg, "emax").value,
                             unit |-> First(arg, "emax").unit]

\* the spec's example: index 2.3 becomes Index -2.3, amplitude 1e-12 is kept
C2_Witness ==
    /\ op = "SpectralModelPowerLaw.from_pset"
    /\ Returned(ret)
    /\ First(arg, "index").value = F2_3
    /\ ret.val.parameters.data[2].value = FNeg(F2_3)
    /\ ret.val.parameters.data[1].value = F1em12
    /\ ret.val.parameters.data[3].unit = "TeV"

\* the largest double below 1, 1 - 2^-53
PredOne == [sgn |-> 1, man |-> <<LimbBase - 1, (LimbBase \div 2) - 1>>, exp |-> -MantBits]

\* c is a double nearest the reciprocal of l: | c * l - 1 | <= ulp(c) * |l| / 2
NearestReciprocal(c, l) ==
    /\ c.sgn = l.sgn
    /\ BigBitLen(c.man) = MantBits
    /\ LET prod == BigMul(c.man, l.man)
           one  == BigShiftLeft(<<1>>, -(c.exp + l.exp))
           diff == IF BigGeq(prod, one) THEN BigSub(prod, one) ELSE BigSub(one, prod)
       IN  BigGeq(l.man, BigDouble(diff, 0))

ExpCutoffInputs ==
    /\ op = "SpectralModelExpCutoff.from_pset"
    /\ Has(arg, "amplitude") /\ Has(arg, "index")
    /\ Has(arg, "lambda_") /\ Has(arg, "reference")
    /\ ~FIsZero(First(arg, "lambda_").value)

ExpCutoffShape ==
    /\ Returned(ret)
    /\ ret.val.cls = "SpectralModelExpCutoff"
    /\ LET d == ret.val.parameters.data
       IN  /\ Len(d) = 4
           /\ d[1] = [name |-> "Prefactor", value |-> First(arg, "amplitude").value,
                      unit |-> First(arg, "amplitude").unit]
           /\ d[2] = [name |-> "Index", value |-> First(arg, "index").value,
                      unit |-> First(arg, "index").unit]
           /\ d[3].name = "Cutoff"
           /\ d[3].unit = First(arg, "lambda_").unit
           /\ d[4] = [name |-> "Scale", value |-> First(arg, "reference").value,
                      unit |-> First(arg, "reference").unit]

\* C3 as stated: from a set holding amplitude, index, lambda_ and reference
\* with lambda_ non-zero, ExpCutoff.from_pset returns [Prefactor, Index,
\* Cutoff, Scale] with Index = index (not negated), Cutoff.unit = lambda_.unit
\* and Cutoff.value * lambda_.value = 1.
C3_CutoffTimesLambdaIsOne ==
    ExpCutoffInputs =>
        /\ ExpCutoffShape
        /\ FMul(ret.val.parameters.data[3].value, First(arg, "lambda_").value) = FromInt(1)

\* C3 amended: as above, but Cutoff.value is the floating-point quotient
\* 1 / lambda_.value, the double nearest the reciprocal, so that
\* Cutoff.value * lambda_.value is 1 or the double just below 1.
C3_CutoffIsRoundedReciprocal ==
    ExpCutoffInputs =>
        /\ ExpCutoffShape
        /\ NearestReciprocal(ret.val.parameters.data[3].value, First(arg, "lambda_").value)
        /\ FMul(ret.val.parameters.data[3].value, First(arg, "lambda_").value)
               \in {FromInt(1), PredOne}

\* the spec's example: lambda_ = 0.1 in TeV-1 gives Cutoff = 10.0 in TeV-1
C3_Witness ==
    /\ ExpCutoffInputs
    /\ Returned(ret)
    /\ First(arg, "lambda_").value = F0_1
    /\ ret.val.parameters.data[3].value = FromInt(10)
    /\ ret.val.parameters.data[2].value = First(arg, "index").value

\* C4: SpectralModel.from_gammacat raises the no-data error when the source
\* has no spectral model, the unknown-model error naming the family when the
\* family is not PowerLaw, PowerLaw2 or ExponentialCutoffPowerLaw, and otherwise
\* returns the model of the family's class.
C4_FromGammacatErrors ==
    op = "SpectralModel.from_gammacat" =>
        LET sm == arg.spectral_model
        IN  /\ ~sm.available =>
                  /\ ret.exc = "NoDataAvailableError"
                  /\ ret.arg = arg
            /\ (sm.available /\ sm.name \notin {"PowerLaw", "PowerLaw2", "ExponentialCutoffPowerLaw"}) =>
                  /\ ret.exc = "UnknownModelError"
                  /\ ret.arg.name = sm.name
            /\ (sm.available /\ sm.name = "PowerLaw") =>
                  Returned(ret) /\ ret.val.cls = "SpectralModelPowerLaw"
            /\ (sm.available /\ sm.name = "PowerLaw2") =>
                  Returned(ret) /\ ret.val.cls = "SpectralModelPowerLaw2"
            /\ (sm.available /\ sm.name = "ExponentialCutoffPowerLaw") =>
                  Returned(ret) /\ ret.val.cls = "SpectralModelExpCutoff"

\* a source whose family is LogParabola gives the unknown-model error
C4_Witness ==
    /\ op = "SpectralModel.from_gammacat"
    /\ arg.spectral_model.available
    /\ arg.spectral_model.name = "LogParabola"
    /\ ret.exc = "UnknownModelError"

\* C5: SpatialModel.from_xml_dict returns the class one of whose xml_types
\* is the element's type (Gauss for both Gauss and Gaussian, Shell for both
\* Shell and RadialShell), always with an empty parameter list whatever
\* parameter children the element has, and raises the unknown-model error
\* naming the type for every other type.
C5_SpatialSynonyms ==
    op = "SpatialModel.from_xml_dict" =>
        LET t == TypeOf(arg)
            model(cls) == Return([cls |-> cls, parameters |-> [data |-> <<>>]])
        IN  /\ t = "Point" => ret = model("SpatialModelPoint")
            /\ t \in {"Gauss", "Gaussian"} => ret = model("SpatialModelGauss")
            /\ t \in {"Shell", "RadialShell"} => ret = model("SpatialModelShell")
            /\ t \notin {"Point", "Gauss", "Gaussian", "Shell", "RadialShell"} =>
                  /\ ret.exc = "UnknownModelError"
                  /\ ret.arg = t

\* a Gaussian element with parameter children read as a Gauss model without parameters
C5_Witness ==
    /\ op = "SpatialModel.from_xml_dict"
    /\ TypeOf(arg) = "Gaussian"
    /\ HasKey(arg, "parameter")
    /\ Returned(ret)
    /\ ret.val.cls = "SpatialModelGauss"
    /\ ret.val.parameters.data = <<>>

SpectralConverts(source) ==
    /\ source.spectral_model.available
    /\ source.spectral_model.name \in {"PowerLaw", "PowerLaw2", "ExponentialCutoffPowerLaw"}

SourceTypeConsistent ==
    Returned(ret) =>
        /\ ret.val.source_type = xml_source_type(ret.val.spatial_model.cls)
        /\ arg.data.morph_type = "point" =>
              /\ ret.val.source_type = "PointSource"
              /\ ret.val.spatial_model.cls = "SpatialModelPoint"
        /\ arg.data.morph_type = "gauss" =>
              /\ ret.val.source_type = "ExtendedSource"
              /\ ret.val.spatial_model.cls = "SpatialModelGauss"
        /\ arg.data.morph_type = "shell" =>
              /\ ret.val.source_type = "ExtendedSource"
              /\ ret.val.spatial_model.cls = "SpatialModelShell"

\* C7 as stated: a SourceModel returned by SourceModel.from_gammacat has
\* source_type = spatial_model.xml_source_type (point: PointSource with a
\* Point model; gauss, shell: ExtendedSource with a Gauss, Shell model), and
\* any other morph_type gives an UnknownModel error.
C7_UnknownMorphIsUnknownModel ==
    op = "SourceModel.from_gammacat" =>
        /\ SourceTypeConsistent
        /\ arg.data.morph_type \notin {"point", "gauss", "shell"} =>
              ret.exc = "UnknownModelError"

\* C7 amended: source_type is consistent as above, and any other morph_type
\* gives no SourceModel; the error is the UnknownModel error of the spatial
\* conversion, naming the source, when the spectral conversion succeeded,
\* and otherwise the error of the spectral conversion (NoDataAvailable for
\* a source without spectral model, UnknownModel for an unknown family).
C7_SourceTypeConsistent ==
    op = "SourceModel.from_gammacat" =>
        /\ SourceTypeConsistent
        /\ arg.data.morph_type \notin {"point", "gauss", "shell"} =>
              /\ ~Returned(ret)
              /\ SpectralConverts(arg) =>
                    /\ ret.exc = "UnknownModelError"
                    /\ ret.msg = "Unknown spatial model: {}"
                    /\ ret.arg = arg
              /\ ~arg.spectral_model.available => ret.exc = "NoDataAvailableError"
              /\ (arg.spectral_model.available /\ ~SpectralConverts(arg)) =>
                    /\ ret.exc = "UnknownModelError"
                    /\ ret.msg = "Unknown spectral model: {}"

\* a gauss source converted to an ExtendedSource with a Gauss model
C7_Witness ==
    /\ op = "SourceModel.from_gammacat"
    /\ arg.data.morph_type = "gauss"
    /\ Returned(ret)
    /\ ret.val.source_type = "ExtendedSource"
    /\ ret.val.spatial_model.cls = "SpatialModelGauss"

\* C10: SourceModel.from_gammacat converts the spectral model first: a
\* source without spectral model fails with NoDataAvailable whatever its
\* morph_type, the UnknownModel error for an unrecognized morph_type is
\* raised only when the spectral conversion succeeded, and no SourceModel
\* is returned in any failing case.
C10_SpectralBeforeSpatial ==
    op = "SourceModel.from_gammacat" =>
        /\ ~arg.spectral_model.available =>
              /\ ret.exc = "NoDataAvailableError"
              /\ ret.arg = arg
        /\ (ret.exc = "UnknownModelError" /\ ret.msg = "Unknown spatial model: {}") =>
              SpectralConverts(arg)
        /\ Returned(ret) <=>
              /\ SpectralConverts(arg)
              /\ arg.data.morph_type \in {"point", "gauss", "shell"}

\* a source with neither spectral model nor known morph_type: NoDataAvailable
C10_Witness ==
    /\ op = "SourceModel.from_gammacat"
    /\ ~arg.spectral_model.available
    /\ arg.data.morph_type \notin {"point", "gauss", "shell"}
    /\ ret.exc = "NoDataAvailableError"

\* the value a mapping read from a document holds under a key
Child(data, key) == data.dict[KeyIndex(data, key)].v

\* a <spectrum> mapping with a known type and several <parameter> children
SpectrumReadable(sp) ==
    /\ TypeOf(sp) \in {"PowerLaw", "PowerLaw2", "ExpCutoff"}
    /\ HasKey(sp, "parameter")
    /\ IsList(Child(sp, "parameter"))

SpatialClassOf(t) ==
    CASE t = "Point" -> "SpatialModelPoint"
      [] t \in {"Gauss", "Gaussian"} -> "SpatialModelGauss"
      [] t \in {"Shell", "RadialShell"} -> "SpatialModelShell"
      [] OTHER -> "unknown"

\* the spatial sub-model is read from radialModel if present, else spatialModel
SpatialFromPreferredChild ==
    LET child == IF HasKey(arg, "radialModel") THEN Child(arg, "radialModel")
                 ELSE Child(arg, "spatialModel")
        t     == TypeOf(child)
    IN  IF SpatialClassOf(t) = "unknown"
        THEN ret.exc = "UnknownModelError" /\ ret.arg = t
        ELSE /\ Returned(ret)
             /\ ret.val.spatial_model.cls = SpatialClassOf(t)
             /\ ret.val.spatial_model.parameters.data = <<>>
             /\ ret.val.source_name = Child(arg, "@name").text
             /\ ret.val.source_type = Child(arg, "@type").text

NeitherKeyError ==
    /\ ret.exc = "UnknownModelError"
    /\ ret.msg = "No spatial / radial model found for: {}"
    /\ ret.arg = arg

\* C8 as stated: SourceModel.from_xml_dict reads the spatial sub-model from
\* 'radialModel' when present, otherwise from 'spatialModel', takes
\* source_name and source_type verbatim, and for a dictionary with neither
\* key fails with the UnknownModel error naming the dictionary.
C8_NeitherKeyNamesDictionary ==
    op = "SourceModel.from_xml_dict" =>
        /\ (SpectrumReadable(Child(arg, "spectrum"))
              /\ (HasKey(arg, "radialModel") \/ HasKey(arg, "spatialModel"))) =>
                 SpatialFromPreferredChild
        /\ (~HasKey(arg, "radialModel") /\ ~HasKey(arg, "spatialModel")) =>
                 NeitherKeyError

\* C8 amended: the spectral sub-model is read first and its failure is the
\* call's failure; when it was read, the spatial sub-model comes from
\* 'radialModel' when present, otherwise from 'spatialModel', source_name
\* and source_type are verbatim, and a dictionary with neither key fails
\* with the UnknownModel error naming the dictionary.
C8_RadialModelPreferred ==
    op = "SourceModel.from_xml_dict" =>
        /\ (SpectrumReadable(Child(arg, "spectrum"))
              /\ (HasKey(arg, "radialModel") \/ HasKey(arg, "spatialModel"))) =>
                 SpatialFromPreferredChild
        /\ (SpectrumReadable(Child(arg, "spectrum"))
              /\ ~HasKey(arg, "radialModel") /\ ~HasKey(arg, "spatialModel")) =>
                 NeitherKeyError
        /\ ~SpectrumReadable(Child(arg, "spectrum")) =>
              /\ ~Returned(ret)
              /\ ret.msg # "No spatial / radial model found for: {}"

\* both children present with different types: the radialModel decides, and
\* the PointSource type of the document is kept beside a Gauss model
C8_Witness ==
    /\ op = "SourceModel.from_xml_dict"
    /\ HasKey(arg, "radialModel") /\ HasKey(arg, "spatialModel")
    /\ TypeOf(Child(arg, "radialModel")) = "Gaussian"
    /\ TypeOf(Child(arg, "spatialModel")) = "Point"
    /\ Returned(ret)
    /\ ret.val.spatial_model.cls = "SpatialModelGauss"
    /\ ret.val.source_type = "PointSource"

\* the <parameter> mappings of a <spectrum> mapping, in document order
ParameterDicts(sp) ==
    IF IsList(Child(sp, "parameter")) THEN Child(sp, "parameter").list
    ELSE <<Child(sp, "parameter")>>

ParameterOf(d) ==
    [name |-> Child(d, "@name").text, value |-> Child(d, "@value").numtext,
     unit |-> IF HasKey(d, "@unit") THEN Child(d, "@unit").text ELSE ""]

\* C9: for a <spectrum> with parameter children, SpectralModel.from_xml_dict
\* returns the variant whose primary xml_type is exactly '@type' with the
\* parameters of the document in document order, and fails with the
\* UnknownModel error naming the type when '@type' matches no variant.
C9_UnknownTypeIsUnknownModel ==
    (op = "SpectralModel.from_xml_dict" /\ HasKey(arg, "parameter")) =>
        LET t == TypeOf(arg)
        IN  /\ t \in {"PowerLaw", "PowerLaw2", "ExpCutoff"} =>
                  /\ Returned(ret)
                  /\ xml_type(ret.val.cls) = t
                  /\ ret.val.parameters.data =
                        [i \in 1..Len(ParameterDicts(arg)) |-> ParameterOf(ParameterDicts(arg)[i])]
            /\ t \notin {"PowerLaw", "PowerLaw2", "ExpCutoff"} =>
                  /\ ret.exc = "UnknownModelError"
                  /\ ret.arg = t

\* C1: a library of one or more SourceModels written by to_xml and read by
\* from_xml gives a library with as many sources in the same order, each
\* with the same source_name and source_type, the same spectral parameters
\* (names, values, units) and an empty spatial parameter list.
C1_RoundTrip ==
    (op = "SourceLibrary.from_xml" /\ Len(library.source_list) >= 1) =>
        /\ Returned(ret)
        /\ Len(ret.val.source_list) = Len(library.source_list)
        /\ \A i \in 1..Len(library.source_list) :
              LET read    == ret.val.source_list[i]
                  written == library.source_list[i]
              IN  /\ read.source_name = written.source_name
                  /\ read.source_type = written.source_type
                  /\ read.spectral_model.parameters = written.spectral_model.parameters
                  /\ read.spatial_model.parameters.data = <<>>

====
